---- MODULE Spec2Model ----
(***************************************************************************)
(* Model of the packet transmission simulation: class Node with its       *)
(* send / receive / processPackets / stop operations, the inbound buffer, *)
(* the buffer mutex and condition variable of each node, and the          *)
(* process-wide output mutex.                                              *)
(*                                                                         *)
(* Tasks: the driver task "main" runs Node A's send calls (and, nested in *)
(* them, Node B's receive, Node B's send of the ACK and Node A's receive);*)
(* the task "proc" runs Node B's processPackets; the task "ctl" calls     *)
(* Node B's stop.  The call chain of a driver task is an explicit stack   *)
(* of frames.                                                              *)
(***************************************************************************)
EXTENDS Integers, Sequences, FiniteSets, TLC

\* ---------------------------------------------------------------- bounds
MaxSends == 2       \* top-level send calls issued by the driver
MaxInject == 2      \* receive calls whose loss sample is below 0.1 or whose
                    \* corruption sample is below 0.05
MaxErrors == 2      \* exceptions thrown inside the try block of processPackets

\* ------------------------------------------------------------- constants
MAX_RETRIES == 3

Nodes == {"A", "B"}
Drivers == {"main"}
Callers == {"main", "aux"}   \* threads that can call send; "aux" stands for a
                             \* second thread using the nodes, which main
                             \* itself never starts
ProcNode == "B"
None == "none"

DATA == "DATA"
ACK == "ACK"
CORRUPTED == "CORRUPTED"

VARIABLES
    buffer,        \* buffer[n]: the std::queue<Packet> of node n
    running,       \* running[n]: the running flag of node n
    bufferMutex,   \* bufferMutex[n]: the task holding node n's bufferMutex
    coutMutex,     \* the task holding coutMutex
    stack,         \* stack[t]: call stack of driver task t (send/receive frames)
    drv,           \* drv[t]: position of driver task t in main's send sequence
    pp,            \* the processPackets task of ProcNode
    ctl,           \* the task calling stop on ProcNode
    pushThrows,    \* pushThrows[n]: buffer.push of node n throws std::bad_alloc
                   \*                (fixed for a run)
    injections,    \* number of packets dropped or corrupted so far
    enqueued,      \* history: enqueued[n] = packets pushed into buffer[n], in order
    processed,     \* history: packets of ProcNode with a "processing" event, in order
    signals,       \* history: signals[n] = number of bufferCV.notify_one calls of n
    pending,       \* history: packets enqueued before the first call of stop
                   \*          that have no "processing" event yet (0 before it)
    evlog          \* history: the output lines in the order they were written,
                   \*          kept when evlog.on (the demonstration run)

vars == <<buffer, running, bufferMutex, coutMutex, stack, drv, pp, ctl,
          pushThrows, injections, enqueued, processed, signals, pending, evlog>>

\* ------------------------------------------------------------ data types
Packet(d, s, k) == [data |-> d, sequenceNumber |-> s, type |-> k]

\* packet1{"Test", 1, DATA}, packet2{"Packet", 2, DATA}, ...
MainPacket(i) == Packet(IF i = 1 THEN "Test" ELSE "Packet", i, DATA)

NoPacket == Packet("", 0, None)

Event(e, k) == [ev |-> e, attempt |-> k]

\* an output line: the node that wrote it, what it reports, and the packet
Line(n, e, p) == [node |-> n, ev |-> e, type |-> p.type, seq |-> p.sequenceNumber]

\* the packet an output line of frame f shows
Shown(f, e) == IF f.op = "receive" /\ e # "dropped" THEN f.receivedPacket ELSE f.packet

\* std::cout << ... << std::endl;
Logged(l) == IF evlog.on THEN [evlog EXCEPT !.seq = Append(@, l)] ELSE evlog

\* A frame of the call stack.  op is "send" or "receive"; self is the node
\* whose method runs, peer the other node (receiver of a send, sender of a
\* receive).  retryCount, trace and results belong to send frames,
\* receivedPacket, dropped, corrupted, pushed and acks to receive frames.
Frame(op, self, peer, packet, pc) ==
    [op |-> op, self |-> self, peer |-> peer, packet |-> packet, pc |-> pc,
     retryCount |-> 0, receivedPacket |-> NoPacket,
     dropped |-> FALSE, corrupted |-> FALSE, pushed |-> FALSE, acks |-> 0,
     trace |-> <<>>, results |-> <<>>]

SendFrame(self, receiver, packet) == Frame("send", self, receiver, packet, "s_lock")

RecvFrame(self, sender, packet) == Frame("receive", self, sender, packet, "r_loss")

\* ------------------------------------------------------- stack utilities
Depth(t) == Len(stack[t])

Top(t) == stack[t][Len(stack[t])]

SetTop(t, f) == [stack EXCEPT ![t] = [@ EXCEPT ![Len(@)] = f]]

Push(t, f, g) == [stack EXCEPT ![t] = Append([@ EXCEPT ![Len(@)] = f], g)]

AtPc(t, op, pc) == Depth(t) > 0 /\ Top(t).op = op /\ Top(t).pc = pc

\* --------------------------------------------------- decisions of the code
\* while (retryCount < MAX_RETRIES)
RetryAllowedLe(retryCount) == retryCount <= MAX_RETRIES

RetryAllowed(retryCount) == retryCount < MAX_RETRIES

LoopPc(retryCount) == IF RetryAllowed(retryCount) THEN "s_lock" ELSE "s_final_lock"

\* after the "dropped" line: return;  (receive completes normally)
DropRaises == "ret_exc"

DropFallsThrough == "r_corrupt"

DropReturn == "ret_ok"

\* receivedPacket.data = "CORRUPTED";
CorruptAll(p) == [p EXCEPT !.data = CORRUPTED, !.sequenceNumber = 0]

Corrupt(p) == [p EXCEPT !.data = CORRUPTED]

\* if (receivedPacket.type == PacketType::DATA)
NeedsAckAlways(p) == TRUE

NeedsAck(p) == p.type = DATA

\* Packet ackPacket{"ACK", receivedPacket.sequenceNumber, PacketType::ACK};
MakeAckZero(p) == Packet("ACK", 0, ACK)

MakeAckNext(p) == Packet("ACK", p.sequenceNumber + 1, ACK)

MakeAck(p) == Packet("ACK", p.sequenceNumber, ACK)

\* buffer.front()
Back(q) == q[Len(q)]

Front(q) == Head(q)

\* buffer.pop()
PopAll(q) == <<>>

Pop(q) == Tail(q)

\* running = false;  (in stop)
StopToggle(r) == ~r

StopWrite(r) == FALSE

\* the wait predicate  [this] { return !buffer.empty() || !running; }
WaitPredNoStop(n) == buffer[n] # <<>>

WaitPred(n) == buffer[n] # <<>> \/ ~running[n]

\* std::mutex::lock on a node's bufferMutex blocks while another task holds it
BufferLockAny(n) == TRUE

BufferLockFree(n) == bufferMutex[n] = None

\* std::mutex::lock on coutMutex blocks while another task holds it
CoutLockAny == TRUE

CoutLockFree == coutMutex = None

\* buffer.push(receivedPacket) throws std::bad_alloc on a node without memory
PushFailsStopped(n) == pushThrows[n] \/ ~running[n]

PushFails(n) == pushThrows[n]

\* bufferCV.notify_one(): a task blocked in wait is woken
NotifyNone(p) == p

NotifyOne(p) == IF p.pc = "p_blocked" THEN [p EXCEPT !.pc = "p_wake"] ELSE p

\* if (std::string(e.what()) == "Fatal error")
IsFatalAny(m) == TRUE

IsFatal(m) == m = "Fatal error"

\* lock.unlock(); before the "processing" line: nobody holds the buffer mutex
KeepLocked == "proc"

UnlockForEmit == None

\* while (running): the flag is read without the buffer mutex, so the read
\* can race with the write of stop; it then yields the old or the new value
RacyRead(n) ==
    IF n = ProcNode /\ ctl.pc = "st_set"
    THEN {running[n], StopWrite(running[n])}
    ELSE {running[n]}

\* ------------------------------------------------------------------ Init
\* Allocation failure is a condition of a node for the whole run.  Here it
\* can strike the node that receives the driver's DATA packets; node A,
\* which receives the ACKs, always has memory for them.
AllocFailures == {f \in [Nodes -> BOOLEAN] : ~f["A"]}

\* the state after main has constructed the nodes and started the
\* processing thread; logOn: the output lines are recorded
Start(logOn) ==
    /\ buffer = [n \in Nodes |-> <<>>]
    /\ running = [n \in Nodes |-> TRUE]
    /\ bufferMutex = [n \in Nodes |-> None]
    /\ coutMutex = None
    /\ stack = [t \in Callers |-> <<>>]
    /\ drv = [t \in Callers |-> [sent |-> 0, failed |-> FALSE]]
    /\ pp = [pc |-> "p_while", packet |-> NoPacket, error |-> None, errors |-> 0]
    /\ ctl = [pc |-> "idle", again |-> FALSE]
    /\ injections = 0
    /\ enqueued = [n \in Nodes |-> <<>>]
    /\ processed = <<>>
    /\ signals = [n \in Nodes |-> 0]
    /\ pending = 0
    /\ evlog = [on |-> logOn, seq |-> <<>>]

Init ==
    /\ Start(FALSE)
    /\ pushThrows \in AllocFailures

\* groups of variables an action leaves alone
nodeVars == <<buffer, running, bufferMutex>>
histVars == <<enqueued, processed, signals, pending>>
otherTasks == <<pp, ctl>>
injected == <<pushThrows, injections>>

\* a step of a driver task that touches only its own frame
FrameStep(t, f) ==
    /\ stack' = SetTop(t, f)
    /\ UNCHANGED <<nodeVars, coutMutex, drv, otherTasks, injected, evlog, histVars>>

\* std::lock_guard<std::mutex> coutLock(coutMutex);  then continue at pc
CoutLock(t, pc) ==
    /\ CoutLockFree
    /\ coutMutex' = t
    /\ stack' = SetTop(t, [Top(t) EXCEPT !.pc = pc])
    /\ UNCHANGED <<nodeVars, drv, otherTasks, injected, evlog, histVars>>

\* the output line is written and the lock_guard goes out of scope
CoutEmit(t, f, e) ==
    /\ coutMutex = t
    /\ coutMutex' = None
    /\ evlog' = Logged(Line(Top(t).self, e, Shown(f, e)))
    /\ stack' = SetTop(t, f)
    /\ UNCHANGED <<nodeVars, drv, otherTasks, injected, histVars>>

\* ------------------------------------------------------- main: the sends
\* nodeA.send(packet1, nodeB); nodeA.send(packet2, nodeB);  inside one try
DriverSend(t) ==
    /\ stack[t] = <<>>
    /\ ~drv[t].failed
    /\ drv[t].sent < MaxSends
    /\ drv' = [drv EXCEPT ![t].sent = @ + 1]
    /\ stack' = [stack EXCEPT ![t] = <<SendFrame("A", "B", MainPacket(drv[t].sent + 1))>>]
    /\ UNCHANGED <<nodeVars, coutMutex, otherTasks, injected, evlog, histVars>>

\* ------------------------------------------------------------ Node::send
SendLock(t) ==
    /\ AtPc(t, "send", "s_lock")
    /\ CoutLock(t, "s_emit")

\* "<name> is sending ... (Attempt retryCount + 1)"
SendEmit(t) ==
    /\ AtPc(t, "send", "s_emit")
    /\ CoutEmit(t, [Top(t) EXCEPT !.pc = "s_delay",
                                  !.trace = Append(@, Event("sending", Top(t).retryCount + 1))],
                   "sending")

\* sleep_for(milliseconds(delay(gen)))
SendDelay(t) ==
    /\ AtPc(t, "send", "s_delay")
    /\ FrameStep(t, [Top(t) EXCEPT !.pc = "s_call"])

\* receiver.receive(packet, *this);
SendCall(t) ==
    /\ AtPc(t, "send", "s_call")
    /\ stack' = Push(t, [Top(t) EXCEPT !.pc = "s_wait"],
                        RecvFrame(Top(t).peer, Top(t).self, Top(t).packet))
    /\ UNCHANGED <<nodeVars, coutMutex, drv, otherTasks, injected, evlog, histVars>>

\* catch (const std::exception &e) { lock_guard coutLock(coutMutex);
SendCatchLock(t) ==
    /\ AtPc(t, "send", "s_catch_lock")
    /\ CoutLock(t, "s_catch_emit")

\* "<name> failed to send packet to ..."; retryCount++; } then the loop test
SendCatchEmit(t) ==
    /\ AtPc(t, "send", "s_catch_emit")
    /\ CoutEmit(t, [Top(t) EXCEPT !.pc = LoopPc(Top(t).retryCount + 1),
                                  !.retryCount = @ + 1,
                                  !.trace = Append(@, Event("failed", Top(t).retryCount + 1))],
                   "failed")

SendFinalLock(t) ==
    /\ AtPc(t, "send", "s_final_lock")
    /\ CoutLock(t, "s_final_emit")

\* "... after MAX_RETRIES attempts."; throw std::runtime_error(...)
SendFinalEmit(t) ==
    /\ AtPc(t, "send", "s_final_emit")
    /\ CoutEmit(t, [Top(t) EXCEPT !.pc = "ret_exc",
                                  !.trace = Append(@, Event("exhausted", MAX_RETRIES))],
                   "exhausted")

\* --------------------------------------------------------- Node::receive
\* if (lossProbability(gen) < 0.1)
RecvLoss(t) ==
    /\ AtPc(t, "receive", "r_loss")
    /\ \E lost \in BOOLEAN :
         /\ lost => injections < MaxInject
         /\ injections' = IF lost THEN injections + 1 ELSE injections
         /\ stack' = SetTop(t, [Top(t) EXCEPT !.dropped = lost,
                                     !.pc = IF lost THEN "r_drop_lock" ELSE "r_corrupt"])
    /\ UNCHANGED <<nodeVars, coutMutex, drv, otherTasks, pushThrows, evlog, histVars>>

RecvDropLock(t) ==
    /\ AtPc(t, "receive", "r_drop_lock")
    /\ CoutLock(t, "r_drop_emit")

\* "<name> dropped packet: ..."; return;
RecvDropEmit(t) ==
    /\ AtPc(t, "receive", "r_drop_emit")
    /\ CoutEmit(t, [Top(t) EXCEPT !.pc = DropReturn], "dropped")

\* Packet receivedPacket = packet; if (corruptionProbability(gen) < 0.05)
RecvCorrupt(t) ==
    /\ AtPc(t, "receive", "r_corrupt")
    /\ \E corrupt \in BOOLEAN :
         /\ corrupt => injections < MaxInject
         /\ injections' = IF corrupt THEN injections + 1 ELSE injections
         /\ stack' = SetTop(t, [Top(t) EXCEPT
               !.corrupted = corrupt,
               !.receivedPacket = IF corrupt THEN Corrupt(Top(t).packet) ELSE Top(t).packet,
               !.pc = IF corrupt THEN "r_cor_lock" ELSE "r_buf_lock"])
    /\ UNCHANGED <<nodeVars, coutMutex, drv, otherTasks, pushThrows, evlog, histVars>>

RecvCorLock(t) ==
    /\ AtPc(t, "receive", "r_cor_lock")
    /\ CoutLock(t, "r_cor_emit")

\* "<name> received corrupted packet: ..."
RecvCorEmit(t) ==
    /\ AtPc(t, "receive", "r_cor_emit")
    /\ CoutEmit(t, [Top(t) EXCEPT !.pc = "r_buf_lock"], "corrupted")

\* std::unique_lock<std::mutex> lock(bufferMutex);
RecvBufLock(t) ==
    /\ AtPc(t, "receive", "r_buf_lock")
    /\ BufferLockFree(Top(t).self)
    /\ bufferMutex' = [bufferMutex EXCEPT ![Top(t).self] = t]
    /\ stack' = SetTop(t, [Top(t) EXCEPT !.pc = "r_push"])
    /\ UNCHANGED <<buffer, running, coutMutex, drv, otherTasks, injected, evlog, histVars>>

\* buffer.push(receivedPacket); and the end of the lock's scope.  The push
\* allocates: it either appends the packet or, on a node whose allocation
\* fails, throws std::bad_alloc and leaves the queue as it was; the
\* unique_lock is released either way.
RecvPush(t) ==
    /\ AtPc(t, "receive", "r_push")
    /\ bufferMutex[Top(t).self] = t
    /\ bufferMutex' = [bufferMutex EXCEPT ![Top(t).self] = None]
    /\ IF PushFails(Top(t).self)
       THEN /\ stack' = SetTop(t, [Top(t) EXCEPT !.pc = "ret_exc"])
            /\ UNCHANGED <<buffer, enqueued>>
       ELSE /\ buffer' = [buffer EXCEPT ![Top(t).self] = Append(@, Top(t).receivedPacket)]
            /\ enqueued' = [enqueued EXCEPT ![Top(t).self] = Append(@, Top(t).receivedPacket)]
            /\ stack' = SetTop(t, [Top(t) EXCEPT !.pc = "r_notify", !.pushed = TRUE])
    /\ UNCHANGED <<running, coutMutex, drv, otherTasks, injected, evlog, processed, signals, pending>>

\* bufferCV.notify_one();  wakes the processing task if it is blocked in wait
RecvNotify(t) ==
    /\ AtPc(t, "receive", "r_notify")
    /\ signals' = [signals EXCEPT ![Top(t).self] = @ + 1]
    /\ pp' = IF Top(t).self = ProcNode THEN NotifyOne(pp) ELSE pp
    /\ stack' = SetTop(t, [Top(t) EXCEPT !.pc = "r_log_lock"])
    /\ UNCHANGED <<nodeVars, coutMutex, drv, ctl, injected, evlog, enqueued, processed, pending>>

RecvLogLock(t) ==
    /\ AtPc(t, "receive", "r_log_lock")
    /\ CoutLock(t, "r_log_emit")

\* "<name> received DATA|ACK packet: ..."; then the test of the packet type
RecvLogEmit(t) ==
    /\ AtPc(t, "receive", "r_log_emit")
    /\ CoutEmit(t, [Top(t) EXCEPT
           !.pc = IF NeedsAck(Top(t).receivedPacket) THEN "r_ack" ELSE "ret_ok"],
           "received")

\* Packet ackPacket{...}; send(ackPacket, sender);
RecvAck(t) ==
    /\ AtPc(t, "receive", "r_ack")
    /\ stack' = Push(t, [Top(t) EXCEPT !.pc = "r_wait", !.acks = @ + 1],
                        SendFrame(Top(t).self, Top(t).peer, MakeAck(Top(t).receivedPacket)))
    /\ UNCHANGED <<nodeVars, coutMutex, drv, otherTasks, injected, evlog, histVars>>

\* ------------------------------------------------- return and propagation
\* How a receive call ended, as seen by the send that made it.
ResultOf(f) == IF f.dropped THEN "dropped"
               ELSE IF f.pc = "ret_exc" THEN "failed" ELSE "ok"

\* The caller's frame after the callee f has returned or thrown.
\*   send:    try { receiver.receive(...); return; } catch (...) { ... }
\*   receive: send(ackPacket, sender);  (no handler: the exception propagates)
Resume(c, f) ==
    IF c.op = "send"
    THEN [c EXCEPT !.results = Append(@, ResultOf(f)),
                   !.pc = IF f.pc = "ret_exc" THEN "s_catch_lock" ELSE "ret_ok"]
    ELSE [c EXCEPT !.pc = f.pc]

\* The top frame returns or throws.  An exception leaving the outermost
\* send is caught by main's handler, which skips the remaining sends.
Return(t) ==
    /\ Depth(t) > 0
    /\ Top(t).pc \in {"ret_ok", "ret_exc"}
    /\ LET f == Top(t)
           rest == SubSeq(stack[t], 1, Depth(t) - 1)
       IN IF rest = <<>>
             THEN /\ stack' = [stack EXCEPT ![t] = <<>>]
                  /\ drv' = [drv EXCEPT ![t].failed = (f.pc = "ret_exc")]
             ELSE /\ stack' = [stack EXCEPT ![t] =
                                  [rest EXCEPT ![Len(rest)] = Resume(rest[Len(rest)], f)]]
                  /\ UNCHANGED drv
    /\ UNCHANGED <<nodeVars, coutMutex, otherTasks, injected, evlog, histVars>>

\* -------------------------------------------------- Node::processPackets
procFrame == <<stack, drv, ctl, injected, enqueued, signals>>

procQuiet == <<procFrame, evlog>>

\* while (running)   -- the flag is read without the buffer mutex
ProcWhile ==
    /\ pp.pc = "p_while"
    /\ \E r \in RacyRead(ProcNode) :
         pp' = [pp EXCEPT !.pc = IF r THEN "p_lock" ELSE "p_stop_lock"]
    /\ UNCHANGED <<nodeVars, coutMutex, processed, pending, procQuiet>>

\* std::unique_lock<std::mutex> lock(bufferMutex);
ProcLock ==
    /\ pp.pc = "p_lock"
    /\ BufferLockFree(ProcNode)
    /\ bufferMutex' = [bufferMutex EXCEPT ![ProcNode] = "proc"]
    /\ pp' = [pp EXCEPT !.pc = "p_wait"]
    /\ UNCHANGED <<buffer, running, coutMutex, processed, pending, procQuiet>>

\* bufferCV.wait(lock, pred): with the lock held, test the predicate; if it
\* is false release the lock and block on the condition variable
ProcWait ==
    /\ pp.pc = "p_wait"
    /\ bufferMutex[ProcNode] = "proc"
    /\ IF WaitPred(ProcNode)
       THEN /\ pp' = [pp EXCEPT !.pc = "p_check"]
            /\ UNCHANGED bufferMutex
       ELSE /\ pp' = [pp EXCEPT !.pc = "p_blocked"]
            /\ bufferMutex' = [bufferMutex EXCEPT ![ProcNode] = None]
    /\ UNCHANGED <<buffer, running, coutMutex, processed, pending, procQuiet>>

\* a wait may return without a notification (spurious wake-up)
ProcSpurious ==
    /\ pp.pc = "p_blocked"
    /\ pp' = [pp EXCEPT !.pc = "p_wake"]
    /\ UNCHANGED <<nodeVars, coutMutex, processed, pending, procQuiet>>

\* the woken wait reacquires the lock and tests the predicate again
ProcWake ==
    /\ pp.pc = "p_wake"
    /\ BufferLockFree(ProcNode)
    /\ bufferMutex' = [bufferMutex EXCEPT ![ProcNode] = "proc"]
    /\ pp' = [pp EXCEPT !.pc = "p_wait"]
    /\ UNCHANGED <<buffer, running, coutMutex, processed, pending, procQuiet>>

\* if (!running) break;   -- leaving the try block releases the lock
ProcCheck ==
    /\ pp.pc = "p_check"
    /\ bufferMutex[ProcNode] = "proc"
    /\ IF ~running[ProcNode]
       THEN /\ pp' = [pp EXCEPT !.pc = "p_stop_lock"]
            /\ bufferMutex' = [bufferMutex EXCEPT ![ProcNode] = None]
       ELSE /\ pp' = [pp EXCEPT !.pc = "p_drain"]
            /\ UNCHANGED bufferMutex
    /\ UNCHANGED <<buffer, running, coutMutex, processed, pending, procQuiet>>

\* while (!buffer.empty()) { Packet packet = buffer.front(); buffer.pop();
\* lock.unlock(); ...   -- or the end of the try block, which releases the lock
ProcDrain ==
    /\ pp.pc = "p_drain"
    /\ bufferMutex[ProcNode] = "proc"
    /\ IF buffer[ProcNode] # <<>>
       THEN /\ pp' = [pp EXCEPT !.pc = "p_proc_lock", !.packet = Front(buffer[ProcNode])]
            /\ buffer' = [buffer EXCEPT ![ProcNode] = Pop(@)]
            /\ bufferMutex' = [bufferMutex EXCEPT ![ProcNode] = UnlockForEmit]
       ELSE /\ pp' = [pp EXCEPT !.pc = "p_while"]
            /\ bufferMutex' = [bufferMutex EXCEPT ![ProcNode] = None]
            /\ UNCHANGED buffer
    /\ UNCHANGED <<running, coutMutex, processed, pending, procQuiet>>

\* { std::lock_guard<std::mutex> coutLock(coutMutex);
ProcEmitLock ==
    /\ pp.pc = "p_proc_lock"
    /\ CoutLockFree
    /\ coutMutex' = "proc"
    /\ pp' = [pp EXCEPT !.pc = "p_proc_emit"]
    /\ UNCHANGED <<nodeVars, processed, pending, procQuiet>>

\* "<name> is processing packet: ..." }
ProcEmit ==
    /\ pp.pc = "p_proc_emit"
    /\ coutMutex = "proc"
    /\ coutMutex' = None
    /\ processed' = Append(processed, pp.packet)
    /\ pending' = IF pending > 0 THEN pending - 1 ELSE 0
    /\ pp' = [pp EXCEPT !.pc = "p_relock"]
    /\ evlog' = Logged(Line(ProcNode, "processing", pp.packet))
    /\ UNCHANGED <<nodeVars, procFrame>>

\* lock.lock(); }
ProcRelock ==
    /\ pp.pc = "p_relock"
    /\ BufferLockFree(ProcNode)
    /\ bufferMutex' = [bufferMutex EXCEPT ![ProcNode] = "proc"]
    /\ pp' = [pp EXCEPT !.pc = "p_drain"]
    /\ UNCHANGED <<buffer, running, coutMutex, processed, pending, procQuiet>>

\* after the loop: { std::lock_guard<std::mutex> coutLock(coutMutex);
ProcStopLock ==
    /\ pp.pc = "p_stop_lock"
    /\ CoutLockFree
    /\ coutMutex' = "proc"
    /\ pp' = [pp EXCEPT !.pc = "p_stop_emit"]
    /\ UNCHANGED <<nodeVars, processed, pending, procQuiet>>

\* "<name> is stopping packet processing." }
ProcStopEmit ==
    /\ pp.pc = "p_stop_emit"
    /\ coutMutex = "proc"
    /\ coutMutex' = None
    /\ pp' = [pp EXCEPT !.pc = "p_done"]
    /\ evlog' = Logged(Line(ProcNode, "stopping", NoPacket))
    /\ UNCHANGED <<nodeVars, processed, pending, procFrame>>

\* what() of an exception caught in processPackets: the message of a
\* standard exception, or the message the handler treats as fatal
ErrorMessages == {"std::bad_alloc", "Fatal error"}

\* Packet packet = buffer.front();  the copy of the packet allocates and
\* may throw; the queue is as it was, the unwinding releases the buffer lock
\* and control passes to the catch block
ProcThrow ==
    /\ pp.pc = "p_drain"
    /\ bufferMutex[ProcNode] = "proc"
    /\ buffer[ProcNode] # <<>>
    /\ pp.errors < MaxErrors
    /\ \E m \in ErrorMessages :
         pp' = [pp EXCEPT !.pc = "p_catch_lock", !.error = m, !.errors = @ + 1]
    /\ bufferMutex' = [bufferMutex EXCEPT ![ProcNode] = None]
    /\ UNCHANGED <<buffer, running, coutMutex, processed, pending, procQuiet>>

\* catch (const std::exception &e) { std::lock_guard coutLock(coutMutex);
ProcCatchLock ==
    /\ pp.pc = "p_catch_lock"
    /\ CoutLockFree
    /\ coutMutex' = "proc"
    /\ pp' = [pp EXCEPT !.pc = "p_catch_emit"]
    /\ UNCHANGED <<nodeVars, processed, pending, procQuiet>>

\* "<name> encountered an error while processing packets: ...";
\* if (std::string(e.what()) == "Fatal error") running = false; }
ProcCatchEmit ==
    /\ pp.pc = "p_catch_emit"
    /\ coutMutex = "proc"
    /\ coutMutex' = None
    /\ evlog' = Logged(Line(ProcNode, "error", NoPacket))
    /\ running' = IF IsFatal(pp.error) THEN [running EXCEPT ![ProcNode] = FALSE]
                  ELSE running
    /\ pp' = [pp EXCEPT !.pc = "p_while"]
    /\ UNCHANGED <<buffer, bufferMutex, processed, pending, procFrame>>

ProcError == ProcThrow \/ ProcCatchLock \/ ProcCatchEmit

\* ------------------------------------------------------------ Node::stop
stopFrame == <<buffer, coutMutex, stack, drv, injected, evlog, enqueued, processed, signals>>

\* stop has been called before (it sets the flag before it returns)
StopCalled == ~running[ProcNode] \/ ctl.pc # "idle"

\* a task calls nodeB.stop(); any number of calls, one after the other
StopCall ==
    /\ ctl.pc = "idle"
    /\ ctl' = [pc |-> "st_lock", again |-> StopCalled]
    /\ pending' = IF StopCalled THEN pending
                  ELSE Len(enqueued[ProcNode]) - Len(processed)
    /\ UNCHANGED <<nodeVars, coutMutex, pp, stopFrame>>

\* { std::lock_guard<std::mutex> lock(bufferMutex);
StopLock ==
    /\ ctl.pc = "st_lock"
    /\ BufferLockFree(ProcNode)
    /\ bufferMutex' = [bufferMutex EXCEPT ![ProcNode] = "ctl"]
    /\ ctl' = [ctl EXCEPT !.pc = "st_set"]
    /\ UNCHANGED <<running, pp, pending, stopFrame>>

\* running = false; }
StopSet ==
    /\ ctl.pc = "st_set"
    /\ bufferMutex[ProcNode] = "ctl"
    /\ running' = [running EXCEPT ![ProcNode] = StopWrite(@)]
    /\ bufferMutex' = [bufferMutex EXCEPT ![ProcNode] = None]
    /\ ctl' = [ctl EXCEPT !.pc = "st_notify"]
    /\ UNCHANGED <<pp, pending, stopFrame>>

\* bufferCV.notify_all();  and stop returns
StopNotify ==
    /\ ctl.pc = "st_notify"
    /\ pp' = NotifyOne(pp)
    /\ ctl' = [pc |-> "idle", again |-> FALSE]
    /\ UNCHANGED <<running, bufferMutex, pending, stopFrame>>

\* ------------------------------------------------------------------ Next
DriverStep(t) ==
    \/ DriverSend(t)
    \/ SendLock(t) \/ SendEmit(t) \/ SendDelay(t) \/ SendCall(t)
    \/ SendCatchLock(t) \/ SendCatchEmit(t) \/ SendFinalLock(t) \/ SendFinalEmit(t)
    \/ RecvLoss(t) \/ RecvDropLock(t) \/ RecvDropEmit(t)
    \/ RecvCorrupt(t) \/ RecvCorLock(t) \/ RecvCorEmit(t)
    \/ RecvBufLock(t) \/ RecvPush(t) \/ RecvNotify(t)
    \/ RecvLogLock(t) \/ RecvLogEmit(t) \/ RecvAck(t)
    \/ Return(t)

ProcStep ==
    \/ ProcWhile \/ ProcLock \/ ProcWait \/ ProcSpurious \/ ProcWake \/ ProcCheck
    \/ ProcDrain \/ ProcEmitLock \/ ProcEmit \/ ProcRelock \/ ProcStopLock \/ ProcStopEmit

StopStep == StopCall \/ StopLock \/ StopSet \/ StopNotify

Next ==
    \/ \E t \in Drivers : DriverStep(t)
    \/ ProcStep
    \/ StopStep

Spec == Init /\ [][Next]_vars

\* ------------------------------- src/main.cpp: no loss and no corruption
\* receive(packet, sender) of src/main.cpp starts at the lock of the buffer
\* mutex and pushes the packet it was given
PlainRecvFrame(self, sender, packet) ==
    [RecvFrame(self, sender, packet) EXCEPT !.pc = "r_buf_lock", !.receivedPacket = packet]

\* receiver.receive(packet, *this);
SendCallPlain(t) ==
    /\ AtPc(t, "send", "s_call")
    /\ stack' = Push(t, [Top(t) EXCEPT !.pc = "s_wait"],
                        PlainRecvFrame(Top(t).peer, Top(t).self, Top(t).packet))
    /\ UNCHANGED <<nodeVars, coutMutex, drv, otherTasks, injected, evlog, histVars>>

\* the steps of the driver when no allocation fails
PlainStep(t) ==
    \/ DriverSend(t)
    \/ SendLock(t) \/ SendEmit(t) \/ SendDelay(t) \/ SendCallPlain(t)
    \/ RecvBufLock(t) \/ RecvPush(t) \/ RecvNotify(t)
    \/ RecvLogLock(t) \/ RecvLogEmit(t) \/ RecvAck(t)
    \/ Return(t)

NoAllocFailure == [n \in Nodes |-> FALSE]

InitPlain ==
    /\ Start(FALSE)
    /\ pushThrows = NoAllocFailure

\* the steps of processPackets other than a spurious wake-up
ProcProgress ==
    \/ ProcWhile \/ ProcLock \/ ProcWait \/ ProcWake \/ ProcCheck
    \/ ProcDrain \/ ProcEmitLock \/ ProcEmit \/ ProcRelock \/ ProcStopLock \/ ProcStopEmit

\* the steps of processPackets while stop is never called
ProcRun ==
    \/ ProcWhile \/ ProcLock \/ ProcWait \/ ProcSpurious \/ ProcWake \/ ProcCheck
    \/ ProcDrain \/ ProcEmitLock \/ ProcEmit \/ ProcRelock

\* the first call of stop
StopFirst == ~StopCalled /\ StopCall

\* a call of stop, once made, runs to its end
StopRest == StopLock \/ StopSet \/ StopNotify

\* Scheduling: a thread that can take a step eventually takes one, and a
\* call of stop that waits for the buffer mutex gets it when the mutex is
\* free again and again (the processing task frees it each time it blocks
\* in wait).  A spurious wake-up may happen but is never owed.
Scheduling ==
    /\ WF_vars(ProcProgress)
    /\ SF_vars(StopRest)
    /\ \A t \in Drivers : WF_vars(PlainStep(t))

\* one call of stop at any moment of the run, under fair scheduling
NextStopOnce ==
    \/ \E t \in Drivers : PlainStep(t)
    \/ ProcStep
    \/ StopFirst
    \/ StopRest

FairStop == InitPlain /\ [][NextStopOnce]_vars /\ Scheduling

\* stop is never called, under fair scheduling
NextNoStop ==
    \/ \E t \in Drivers : PlainStep(t)
    \/ ProcRun

FairNoStop == InitPlain /\ [][NextNoStop]_vars /\ Scheduling

\* main of src/main.cpp: the sends, then nodeB.stop(), with the output
\* lines recorded
InitDemo ==
    /\ Start(TRUE)
    /\ pushThrows = NoAllocFailure

\* std::this_thread::sleep_for(seconds(1)); nodeB.stop();  after the try block
MainStop ==
    /\ \A t \in Drivers : stack[t] = <<>> /\ (drv[t].sent = MaxSends \/ drv[t].failed)
    /\ StopFirst

NextDemo ==
    \/ \E t \in Drivers : PlainStep(t)
    \/ ProcStep
    \/ MainStop
    \/ StopRest

Demo == InitDemo /\ [][NextDemo]_vars

\* ------------------------------------- exceptions inside processPackets
\* stop is never called; the processing task may catch an exception
NextErr ==
    \/ \E t \in Drivers : PlainStep(t)
    \/ ProcStep
    \/ ProcError

FairErr ==
    /\ InitPlain /\ [][NextErr]_vars
    /\ Scheduling
    /\ WF_vars(ProcCatchLock \/ ProcCatchEmit)

\* every kind of output line: loss, corruption, allocation failure and an
\* exception in processPackets, which ends the loop when it is fatal
NextAll ==
    \/ \E t \in Drivers : DriverStep(t)
    \/ ProcStep
    \/ ProcError

AllEvents == Init /\ [][NextAll]_vars

\* ----------------------------------------- the ACK channel out of memory
\* node A cannot enqueue what it receives: every send of an ACK toward it
\* fails three times and throws
AckAllocFailure == [n \in Nodes |-> n = "A"]

InitAckFail ==
    /\ Start(FALSE)
    /\ pushThrows = AckAllocFailure

NextAckFail ==
    \/ \E t \in Drivers : DriverStep(t)
    \/ ProcRun

AckFail == InitAckFail /\ [][NextAckFail]_vars

\* ------------------------------------------------- the program as a whole
\* main as written: the sends, with loss, corruption and allocation
\* failure, then nodeB.stop(); the processing thread may catch exceptions
NextProgram ==
    \/ \E t \in Drivers : DriverStep(t)
    \/ ProcStep
    \/ ProcError
    \/ MainStop
    \/ StopRest

Program == Init /\ [][NextProgram]_vars

\* ------------------------------------------- two threads calling send
\* the two sends of main, one on each thread:
\* "main" calls nodeA.send(packet1, nodeB), "aux" nodeA.send(packet2, nodeB)
CallerPacket(t) == MainPacket(IF t = "main" THEN 1 ELSE 2)

CallerSend(t) ==
    /\ stack[t] = <<>>
    /\ drv[t].sent = 0
    /\ drv' = [drv EXCEPT ![t].sent = 1]
    /\ stack' = [stack EXCEPT ![t] = <<SendFrame("A", "B", CallerPacket(t))>>]
    /\ UNCHANGED <<nodeVars, coutMutex, otherTasks, injected, evlog, histVars>>

\* the steps of a thread whose send meets loss and corruption but no
\* allocation failure
LossyStep(t) ==
    \/ CallerSend(t)
    \/ SendLock(t) \/ SendEmit(t) \/ SendDelay(t) \/ SendCall(t)
    \/ RecvLoss(t) \/ RecvDropLock(t) \/ RecvDropEmit(t)
    \/ RecvCorrupt(t) \/ RecvCorLock(t) \/ RecvCorEmit(t)
    \/ RecvBufLock(t) \/ RecvPush(t) \/ RecvNotify(t)
    \/ RecvLogLock(t) \/ RecvLogEmit(t) \/ RecvAck(t)
    \/ Return(t)

\* two threads run the sends on the same two nodes, which share one
\* std::mt19937; the processing thread of node B runs beside them
NextTwoCallers ==
    \/ \E t \in Callers : LossyStep(t)
    \/ ProcRun

TwoCallers == InitPlain /\ [][NextTwoCallers]_vars

\* ------------------------------------------------------------ type check
TypeOK ==
    /\ \A n \in Nodes : bufferMutex[n] \in Callers \cup {None, "proc", "ctl"}
    /\ coutMutex \in Callers \cup {None, "proc", "ctl"}
    /\ running \in [Nodes -> BOOLEAN]
    /\ pushThrows \in [Nodes -> BOOLEAN]
    /\ injections \in 0..MaxInject
    /\ pending \in 0..Len(enqueued[ProcNode])

\* ------------------------------------------------- frames, for the claims
\* <<t, i>>: the i-th frame of task t's stack, counted from the outermost call
FrameIds == UNION {{<<t, i>> : i \in 1..Depth(t)} : t \in Drivers}

FrameAt(id) == stack[id[1]][id[2]]

IsSend(id) == FrameAt(id).op = "send"

IsRecv(id) == FrameAt(id).op = "receive"

HasCaller(id) == id[2] > 1

Caller(id) == stack[id[1]][id[2] - 1]

Returning(f) == f.pc \in {"ret_ok", "ret_exc"}

IsPrefix(a, b) == Len(a) <= Len(b) /\ \A i \in 1..Len(a) : a[i] = b[i]

Last(q) == q[Len(q)]

\* the events of a send whose every attempt fails
ExhaustedTrace ==
    <<Event("sending", 1), Event("failed", 1),
      Event("sending", 2), Event("failed", 2),
      Event("sending", 3), Event("failed", 3),
      Event("exhausted", 3)>>

\* ------------------------------------------------------------------- C1
\* C1: a send whose receive calls all complete without signalling failure
\* (a receive that drops the packet counts as completing) has made exactly
\* one attempt: it is returning successfully, its only event is "sending"
\* (Attempt 1), it has emitted no "failed" event and does not throw.
C1_OneAttemptOnSuccess ==
    \A id \in FrameIds :
        IsSend(id) =>
            LET f == FrameAt(id) IN
            (f.results # <<>> /\ \A k \in 1..Len(f.results) : f.results[k] \in {"ok", "dropped"})
                => /\ f.pc = "ret_ok"
                   /\ Len(f.results) = 1
                   /\ f.trace = <<Event("sending", 1)>>

\* a DATA send returns successfully although its packet was dropped
C1_Witness ==
    \E id \in FrameIds :
        /\ IsSend(id)
        /\ FrameAt(id).packet.type = DATA
        /\ FrameAt(id).results = <<"dropped">>
        /\ FrameAt(id).pc = "ret_ok"

\* ------------------------------------------------------------------- C2
\* C2: a send whose receive calls all signal failure emits "sending" and
\* "failed" alternately for attempts 1, 2, 3, never starts a 4th attempt,
\* never returns successfully, and after the third failure emits
\* "failed after 3 attempts" and throws.
C2_ThreeAttemptsThenExhausted ==
    \A id \in FrameIds :
        IsSend(id) =>
            LET f == FrameAt(id) IN
            (\A k \in 1..Len(f.results) : f.results[k] = "failed")
                => /\ Len(f.results) <= 3
                   /\ f.retryCount <= 3
                   /\ f.pc # "ret_ok"
                   /\ IsPrefix(f.trace, ExhaustedTrace)
                   /\ Len(f.results) = 3 =>
                        f.pc \in {"s_catch_lock", "s_catch_emit",
                                  "s_final_lock", "s_final_emit", "ret_exc"}
                   /\ f.pc = "ret_exc" =>
                        (f.trace = ExhaustedTrace /\ Len(f.results) = 3)

\* a DATA send throws after three failed receive calls
C2_Witness ==
    \E id \in FrameIds :
        /\ IsSend(id)
        /\ FrameAt(id).packet.type = DATA
        /\ FrameAt(id).results = <<"failed", "failed", "failed">>
        /\ FrameAt(id).pc = "ret_exc"

\* ------------------------------------------------------------------- C3
\* C3: delivery is guaranteed by retransmission: a send of a DATA packet
\* that returns successfully has had its packet enqueued in the receiver's
\* inbound queue (a dropped packet is sent again).
C3_DeliveredWhenSendReturns ==
    \A id \in FrameIds :
        (IsSend(id) /\ FrameAt(id).packet.type = DATA /\ FrameAt(id).pc = "ret_ok")
            => \E i \in 1..Len(enqueued[FrameAt(id).peer]) :
                  /\ enqueued[FrameAt(id).peer][i].type = DATA
                  /\ enqueued[FrameAt(id).peer][i].sequenceNumber
                         = FrameAt(id).packet.sequenceNumber

\* ------------------------------------------------------------------- C4
\* C4: every step of a receive call that has dropped its packet leaves both
\* nodes' inbound queues unchanged, signals no condition variable, wakes no
\* processing task and starts no send (no ACK is constructed or sent); the
\* call has pushed nothing and returns.
C4_LossLeavesNoTrace ==
    [][\A t \in Drivers :
          (Depth(t) > 0 /\ Top(t).op = "receive" /\ Top(t).dropped /\ stack'[t] # stack[t])
              => /\ buffer' = buffer
                 /\ enqueued' = enqueued
                 /\ signals' = signals
                 /\ pp' = pp
                 /\ ~Top(t).pushed /\ Top(t).acks = 0
                 /\ Len(stack'[t]) <= Len(stack[t])
                 /\ Top(t).pc \in {"r_drop_lock", "r_drop_emit", "ret_ok"}]_vars

\* a receive returns after dropping a packet while an earlier packet is
\* still in its node's queue
C4_Witness ==
    \E t \in Drivers :
        /\ AtPc(t, "receive", "ret_ok")
        /\ Top(t).dropped
        /\ buffer[Top(t).self] # <<>>

\* ------------------------------------------------------------------- C5
\* C5: in a receive call that corrupts, the packet it works on and enqueues
\* has payload "CORRUPTED" and the sequence number and kind of the packet
\* passed in; the packet of the calling send is still the one it was given
\* (the driver's packet, or an ACK with payload "ACK"), so a retry sends the
\* original payload.
C5_CorruptionCopiesPacket ==
    \A id \in FrameIds :
        /\ IsRecv(id) =>
             LET f == FrameAt(id) IN
             /\ HasCaller(id) /\ Caller(id).op = "send" /\ Caller(id).packet = f.packet
             /\ f.packet.data # CORRUPTED
             /\ f.corrupted =>
                  /\ f.receivedPacket.data = CORRUPTED
                  /\ f.receivedPacket.sequenceNumber = f.packet.sequenceNumber
                  /\ f.receivedPacket.type = f.packet.type
                  /\ f.pushed =>
                       /\ enqueued[f.self] # <<>>
                       /\ Last(enqueued[f.self]) =
                            Packet(CORRUPTED, f.packet.sequenceNumber, f.packet.type)
        /\ (IsSend(id) /\ ~HasCaller(id)) =>
             FrameAt(id).packet = MainPacket(drv[id[1]].sent)

\* a corrupted DATA packet has been enqueued and is in the queue
C5_Witness ==
    \E id \in FrameIds :
        /\ IsRecv(id)
        /\ FrameAt(id).corrupted /\ FrameAt(id).pushed
        /\ FrameAt(id).packet.type = DATA
        /\ buffer[FrameAt(id).self] # <<>>
        /\ Last(buffer[FrameAt(id).self]).data = CORRUPTED

\* ------------------------------------------------------------------- C6
\* C6: a receive call that has enqueued a DATA packet starts exactly one
\* send, of the packet {"ACK", same sequence number, ACK}, toward the sender
\* (it has started it once it waits for it or returns); a receive call that
\* dropped the packet or received an ACK starts none; and every ACK that is
\* being sent or was enqueued carries the sequence number of a DATA packet
\* enqueued at the node that sent the ACK.
C6_AckMatchesData ==
    /\ \A id \in FrameIds :
         /\ IsRecv(id) =>
              LET f == FrameAt(id) IN
              /\ f.acks <= 1
              /\ (f.acks = 1) => (f.pushed /\ f.receivedPacket.type = DATA)
              /\ (f.pushed /\ f.receivedPacket.type = DATA
                     /\ (f.pc = "r_wait" \/ Returning(f))) => f.acks = 1
         /\ (IsSend(id) /\ HasCaller(id)) =>
              LET f == FrameAt(id)
                  c == Caller(id) IN
              /\ c.op = "receive" /\ c.pc = "r_wait" /\ c.acks = 1
              /\ f.packet = Packet("ACK", c.receivedPacket.sequenceNumber, ACK)
              /\ c.receivedPacket.sequenceNumber = c.packet.sequenceNumber
              /\ f.self = c.self /\ f.peer = c.peer
              /\ \E i \in 1..Len(enqueued[f.self]) :
                    /\ enqueued[f.self][i].type = DATA
                    /\ enqueued[f.self][i].sequenceNumber = f.packet.sequenceNumber
    /\ \A n \in Nodes : \A i \in 1..Len(enqueued[n]) :
         enqueued[n][i].type = ACK =>
             \E m \in Nodes \ {n} : \E j \in 1..Len(enqueued[m]) :
                 /\ enqueued[m][j].type = DATA
                 /\ enqueued[m][j].sequenceNumber = enqueued[n][i].sequenceNumber

\* the ACK of the second DATA packet has been delivered to the first sender
C6_Witness ==
    /\ \E i \in 1..Len(enqueued["A"]) :
          enqueued["A"][i] = Packet("ACK", 2, ACK)
    /\ \E t \in Drivers :
          /\ Depth(t) = 3
          /\ Top(t).op = "send" /\ Top(t).pc = "ret_ok"
          /\ Top(t).packet = Packet("ACK", 2, ACK)

\* ------------------------------------------------------------------- C7
\* C7: a receive call of an ACK packet never starts a send: it is the
\* innermost call and never reaches the ACK branch; a receive call starts at
\* most one send; the call chain holds at most two sends (the DATA send and
\* the send of its ACK), so at most one send is nested inside a receive.
C7_AcksNotAcknowledged ==
    /\ \A t \in Drivers :
         /\ Depth(t) <= 4
         /\ Cardinality({i \in 1..Depth(t) : stack[t][i].op = "send"}) <= 2
    /\ \A id \in FrameIds :
         IsRecv(id) =>
             LET f == FrameAt(id) IN
             /\ f.acks <= 1
             /\ f.packet.type = ACK =>
                  /\ id[2] = Depth(id[1])
                  /\ f.acks = 0
                  /\ f.pc \notin {"r_ack", "r_wait"}

\* the receive of an ACK, nested in the send of the ACK, nested in the
\* receive of the DATA packet, nested in the DATA send, returns
C7_Witness ==
    \E t \in Drivers :
        /\ Depth(t) = 4
        /\ AtPc(t, "receive", "ret_ok")
        /\ Top(t).packet.type = ACK
        /\ Top(t).pushed

\* ------------------------------------------------------------------- C8
\* C8: FIFO: the packets with a "processing" event, in the order of the
\* events, are a prefix of the packets enqueued into the node's queue, in
\* the order of their enqueueing.
C8_Fifo == IsPrefix(processed, enqueued[ProcNode])

\* two different packets have had their "processing" events
C8_Witness ==
    /\ Len(processed) >= 2
    /\ processed[1] # processed[2]

\* ------------------------------------------------------------------- C9
\* C9: the running flag of every node starts true; once false it stays
\* false in every step; when stop has written the flag it is false, also in
\* a second and any later call of stop, which completes like the first.
C9_StopIdempotentMonotone ==
    /\ \A n \in Nodes : running[n]
    /\ [][/\ \A n \in Nodes : ~running[n] => ~running'[n]
          /\ ctl'.pc = "st_notify" => ~running'[ProcNode]
          /\ (ctl.pc = "st_notify" /\ ctl'.pc = "idle") => ~running'[ProcNode]]_vars

\* a second call of stop has written the flag and is about to return
C9_Witness ==
    /\ ctl.pc = "st_notify"
    /\ ctl.again
    /\ ~running[ProcNode]

\* ------------------------------------------------------------------ C10
\* C10: once processPackets has left its loop (it is about to emit, or has
\* emitted, "stopping"), the running flag is false and every packet that
\* was enqueued before stop was called has had its "processing" event.
C10_DrainedBeforeStopping ==
    pp.pc \in {"p_stop_lock", "p_stop_emit", "p_done"}
        => (~running[ProcNode] /\ pending = 0)

\* ------------------------------------------------------------------ C11
\* C11: under fair scheduling, with the driver making finitely many calls,
\* once stop has been called the processing task eventually terminates;
\* it reaches its end only by emitting "stopping", and after that it takes
\* no further step: "stopping" is emitted once, as its last event, and no
\* "processing" event follows it.
C11_StopTerminates ==
    /\ StopCalled ~> (pp.pc = "p_done")
    /\ [][(pp'.pc = "p_done" /\ pp.pc # "p_done") => pp.pc = "p_stop_emit"]_vars
    /\ [][pp.pc = "p_done" => (pp' = pp /\ processed' = processed)]_vars

\* the task has terminated after stop, having processed a packet, while a
\* later packet is left in the queue
C11_Witness ==
    /\ pp.pc = "p_done"
    /\ ~running[ProcNode]
    /\ processed # <<>>
    /\ buffer[ProcNode] # <<>>

\* ------------------------------------------------------------------ C12
\* position of the first occurrence of an output line in the log (0: none)
Pos(l) ==
    IF \E i \in 1..Len(evlog.seq) : evlog.seq[i] = l
    THEN CHOOSE i \in 1..Len(evlog.seq) :
             evlog.seq[i] = l /\ \A j \in 1..(i - 1) : evlog.seq[j] # l
    ELSE 0

Count(l) == Cardinality({i \in 1..Len(evlog.seq) : evlog.seq[i] = l})

\* if line b has been written, line a was written before it
Before(a, b) == Pos(b) > 0 => (0 < Pos(a) /\ Pos(a) < Pos(b))

\* the five output lines of the k-th packet of the demonstration
SendingData(k) == Line("A", "sending", MainPacket(k))

ReceivedData(k) == Line("B", "received", MainPacket(k))

SendingAck(k) == Line("B", "sending", Packet("ACK", k, ACK))

Processing(k) == Line("B", "processing", MainPacket(k))

ReceivedAck(k) == Line("A", "received", Packet("ACK", k, ACK))

PacketLines(k) ==
    {SendingData(k), ReceivedData(k), SendingAck(k), Processing(k), ReceivedAck(k)}

\* the driver's k-th send has returned
SendDone(t, k) == drv[t].sent > k \/ (drv[t].sent = k /\ stack[t] = <<>>)

\* C12 as stated: in the demonstration run the lines of each packet are
\* written in the order A sending DATA, B received DATA, B sending ACK,
\* B processing, A received ACK, and all five lines of a packet precede
\* the "sending" line of the next packet.
C12_DemoEventOrder ==
    \A k \in 1..MaxSends :
        /\ Before(SendingData(k), ReceivedData(k))
        /\ Before(ReceivedData(k), SendingAck(k))
        /\ Before(SendingAck(k), Processing(k))
        /\ Before(Processing(k), ReceivedAck(k))
        /\ \A l \in PacketLines(k) : Before(l, SendingData(k + 1))

\* C12 amended: in the demonstration run the lines written by the driver's
\* call chain come in the order A sending DATA, B received DATA, B sending
\* ACK, A received ACK, each once, all four before the "sending" line of
\* the next packet, and all four are written when the send has returned;
\* the "processing" line of a packet, written by the concurrent task, comes
\* after the "sending" line of that packet and after the "processing" line
\* of the packet before it, at most once, and is otherwise unordered with
\* respect to the driver's lines.
C12_DriverEventOrder ==
    \A k \in 1..MaxSends :
        /\ Before(SendingData(k), ReceivedData(k))
        /\ Before(ReceivedData(k), SendingAck(k))
        /\ Before(SendingAck(k), ReceivedAck(k))
        /\ Before(ReceivedAck(k), SendingData(k + 1))
        /\ Before(SendingData(k), Processing(k))
        /\ Before(Processing(k), Processing(k + 1))
        /\ \A l \in PacketLines(k) : Count(l) <= 1
        /\ \A t \in Drivers : SendDone(t, k) => Pos(ReceivedAck(k)) > 0

\* both sends have returned; the first packet's "processing" line was
\* written before B's "received" line of it, the second packet's after the
\* last line of the driver
C12_Witness ==
    /\ \A t \in Drivers : SendDone(t, 2)
    /\ 0 < Pos(Processing(1)) /\ Pos(Processing(1)) < Pos(ReceivedData(1))
    /\ Pos(Processing(2)) > Pos(ReceivedAck(2))

\* ------------------------------------------------------------------ C13
\* C13: a receive call that has enqueued its DATA packet never signals
\* failure to the send that called it, also when its nested send of the
\* ACK has thrown; so the send of a DATA packet toward a node that can
\* enqueue it records no failed attempt, and no DATA packet is enqueued
\* twice at the receiver.
C13_AckFailureAbsorbed ==
    /\ \A id \in FrameIds :
          (IsRecv(id) /\ FrameAt(id).pushed) => FrameAt(id).pc # "ret_exc"
    /\ \A id \in FrameIds :
          (IsSend(id) /\ FrameAt(id).packet.type = DATA /\ ~pushThrows[FrameAt(id).peer])
              => \A k \in 1..Len(FrameAt(id).results) : FrameAt(id).results[k] # "failed"
    /\ \A i, j \in 1..Len(enqueued[ProcNode]) :
          (i # j /\ enqueued[ProcNode][i].type = DATA /\ enqueued[ProcNode][j].type = DATA)
              => enqueued[ProcNode][i].sequenceNumber # enqueued[ProcNode][j].sequenceNumber

\* ------------------------------------------------------------------ C14
\* C14: no lost wake-up: while stop is never called, under fair scheduling
\* (and without relying on spurious wake-ups), the k-th packet enqueued at
\* the node eventually gets its "processing" event, for every k.
C14_NoLostWakeup ==
    \A k \in 1..MaxSends :
        (Len(enqueued[ProcNode]) >= k) ~> (Len(processed) >= k)

\* the task, woken by notify_one from its wait on an empty queue, has
\* processed every packet enqueued so far and blocks again
C14_Witness ==
    /\ pp.pc = "p_blocked"
    /\ Len(processed) >= 2
    /\ processed = enqueued[ProcNode]
    /\ signals[ProcNode] >= 2

\* ------------------------------------------------------------------ C15
\* the tasks that are at an access to node n's queue: a receive at its push,
\* processPackets at the wait predicate or at the test, front and pop of
\* its inner loop
QueueUsers(n) ==
    {t \in Drivers : \E i \in 1..Depth(t) :
         /\ stack[t][i].op = "receive"
         /\ stack[t][i].self = n
         /\ stack[t][i].pc = "r_push"}
    \cup (IF n = ProcNode /\ pp.pc \in {"p_wait", "p_drain"} THEN {"proc"} ELSE {})

\* C15: every task at an access to a node's inbound queue holds that
\* node's buffer mutex, so at most one task is at such an access; a step
\* that lengthens the queue is the push of a receive on that node, made
\* with the mutex held, and a step that shortens it is the pop of
\* processPackets, made with the mutex held.
C15_QueueUnderMutex ==
    /\ [](\A n \in Nodes :
            /\ \A u \in QueueUsers(n) : bufferMutex[n] = u
            /\ Cardinality(QueueUsers(n)) <= 1)
    /\ [][\A n \in Nodes :
            /\ buffer'[n] # buffer[n] =>
                  (Len(buffer'[n]) > Len(buffer[n]) \/ Len(buffer'[n]) < Len(buffer[n]))
            /\ Len(buffer'[n]) > Len(buffer[n]) =>
                  \E t \in Drivers :
                      /\ AtPc(t, "receive", "r_push") /\ Top(t).self = n
                      /\ bufferMutex[n] = t
                      /\ buffer'[n] = Append(buffer[n], Top(t).receivedPacket)
            /\ Len(buffer'[n]) < Len(buffer[n]) =>
                  /\ n = ProcNode /\ pp.pc = "p_drain" /\ bufferMutex[n] = "proc"
                  /\ buffer'[n] = Tail(buffer[n])]_vars

\* processPackets is in its inner loop, holding the mutex of a non-empty
\* queue, while a receive on the same node waits for the mutex
C15_Witness ==
    /\ pp.pc = "p_drain"
    /\ buffer[ProcNode] # <<>>
    /\ \E t \in Drivers : AtPc(t, "receive", "r_buf_lock") /\ Top(t).self = ProcNode

\* ------------------------------------------------------------------ C16
\* C16: every read of the running flag by processPackets (loop condition,
\* wait predicate, exit check) and every write of it is a step of a task
\* that holds the buffer mutex, so no read of the flag is made while stop
\* is at its write.
C16_FlagUnderMutex ==
    [][/\ (pp.pc \in {"p_while", "p_wait", "p_check"} /\ pp' # pp)
            => bufferMutex[ProcNode] = "proc"
       /\ (pp.pc = "p_while" /\ pp' # pp) => ctl.pc # "st_set"
       /\ running' # running => bufferMutex[ProcNode] = "ctl"]_vars

\* ------------------------------------------------------------------ C17
\* C17: while processPackets takes the output mutex for a "processing"
\* event, writes the event, and until it locks the buffer mutex again, it
\* does not hold the buffer mutex; it holds it again whenever it examines
\* the queue.
C17_EmitWithoutBufferMutex ==
    /\ pp.pc \in {"p_proc_lock", "p_proc_emit", "p_relock"}
           => bufferMutex[ProcNode] # "proc"
    /\ pp.pc \in {"p_wait", "p_drain"} => bufferMutex[ProcNode] = "proc"

\* a receive is at its push, holding the buffer mutex, while processPackets
\* is writing a "processing" event
C17_Witness ==
    /\ pp.pc = "p_proc_emit"
    /\ \E t \in Drivers :
          /\ AtPc(t, "receive", "r_push")
          /\ Top(t).self = ProcNode
          /\ bufferMutex[ProcNode] = t

\* ------------------------------------------------------------------ C18
\* the tasks that are writing an output line: a send at its "sending",
\* "failed" or "failed after 3 attempts" line, a receive at its "dropped",
\* "received corrupted" or "received" line, processPackets at its
\* "processing", "stopping" or "error" line
CoutUsers ==
    {t \in Drivers :
        /\ Depth(t) > 0
        /\ Top(t).pc \in {"s_emit", "s_catch_emit", "s_final_emit",
                          "r_drop_emit", "r_cor_emit", "r_log_emit"}}
    \cup (IF pp.pc \in {"p_proc_emit", "p_stop_emit", "p_catch_emit"}
          THEN {"proc"} ELSE {})

\* C18: every task writing an output line holds coutMutex, so at most one
\* task is writing a line; and coutMutex is held only by a task that is
\* writing a line: each line is one critical section, taken just before
\* the line and left with it.
C18_EmissionUnderCoutMutex ==
    /\ \A u \in CoutUsers : coutMutex = u
    /\ Cardinality(CoutUsers) <= 1
    /\ coutMutex # None => coutMutex \in CoutUsers

\* processPackets is writing its "error" line while a receive waits for
\* coutMutex to write its "received" line
C18_Witness ==
    /\ pp.pc = "p_catch_emit"
    /\ coutMutex = "proc"
    /\ \E t \in Drivers : AtPc(t, "receive", "r_log_lock")

\* ------------------------------------------------------------------ C19
\* C19: whether or not stop has been called on its node, a receive call
\* that did not drop its packet and whose node has memory has enqueued the
\* packet once it is past the push, goes on to its "received" line, has
\* started the send of the ACK of a DATA packet once it waits for it or
\* returns, and does not throw; and a send between nodes that have memory
\* records no failed attempt and makes no second attempt.
C19_StopLeavesCallsAlone ==
    \A id \in FrameIds :
        LET f == FrameAt(id) IN
        /\ (IsRecv(id) /\ ~pushThrows[f.self] /\ ~f.dropped) =>
              /\ f.pc \in {"r_notify", "r_log_lock", "r_log_emit", "r_ack", "r_wait",
                            "ret_ok", "ret_exc"}
                    => (f.pushed /\ \E i \in 1..Len(enqueued[f.self]) :
                                        enqueued[f.self][i] = f.receivedPacket)
              /\ (f.receivedPacket.type = DATA /\ (f.pc = "r_wait" \/ Returning(f)))
                    => f.acks = 1
              /\ ~pushThrows[f.peer] => f.pc # "ret_exc"
        /\ (IsSend(id) /\ ~pushThrows[f.self] /\ ~pushThrows[f.peer]) =>
              /\ f.retryCount = 0
              /\ Len(f.results) <= 1
              /\ f.pc \in {"s_lock", "s_emit", "s_delay", "s_call", "s_wait", "ret_ok"}

\* stop was called before anything was enqueued and the processing task has
\* ended without processing a packet; a receive of a DATA packet on the
\* stopped node has enqueued it, sent the ACK and returns
C19_Witness ==
    /\ ~running[ProcNode]
    /\ pp.pc = "p_done"
    /\ processed = <<>>
    /\ pending = 0
    /\ \E id \in FrameIds :
          /\ IsRecv(id)
          /\ FrameAt(id).self = ProcNode
          /\ FrameAt(id).packet.type = DATA
          /\ FrameAt(id).pushed
          /\ FrameAt(id).acks = 1
          /\ FrameAt(id).pc = "ret_ok"
          /\ Last(buffer[ProcNode]) = FrameAt(id).receivedPacket

\* ------------------------------------------------------------------ C20
\* C20: an exception thrown inside the loop of processPackets takes the
\* task to its catch block with the queue as it was and the buffer mutex
\* released; the catch block writes its line and returns to the loop test
\* without touching the queue or the buffer mutex.  If the message is not
\* "Fatal error" the flag is unchanged, and under fair scheduling every
\* enqueued packet still gets its "processing" event unless a fatal error
\* ends the loop; if it is "Fatal error" the flag is false after the catch
\* block and the task goes on to emit "stopping" and ends, although stop
\* is never called.
C20_ErrorsCaught ==
    /\ [][(pp'.errors # pp.errors) =>
             /\ pp.pc = "p_drain" /\ pp'.pc = "p_catch_lock"
             /\ buffer' = buffer /\ running' = running
             /\ bufferMutex'[ProcNode] = None]_vars
    /\ [](pp.pc \in {"p_catch_lock", "p_catch_emit"} => bufferMutex[ProcNode] # "proc")
    /\ [][(pp.pc = "p_catch_emit" /\ pp' # pp) =>
             /\ pp'.pc = "p_while"
             /\ buffer' = buffer /\ bufferMutex' = bufferMutex
             /\ IF pp.error = "Fatal error"
                THEN ~running'[ProcNode]
                ELSE running' = running]_vars
    /\ [](ctl.pc = "idle" /\ (~running[ProcNode] => pp.error = "Fatal error"))
    /\ (pp.error = "Fatal error") ~> (pp.pc = "p_done")
    /\ \A k \in 1..MaxSends :
          (Len(enqueued[ProcNode]) >= k) ~> (Len(processed) >= k \/ ~running[ProcNode])

\* the task has caught two errors and processed a packet; the second
\* error was fatal and has ended the task, stop never having been called
C20_Witness ==
    /\ pp.errors = 2
    /\ pp.error = "Fatal error"
    /\ pp.pc = "p_done"
    /\ Len(processed) >= 1
    /\ ctl.pc = "idle"

\* ------------------------------------------------------------------ C21
\* the threads that are at a statement sampling the shared generator:
\* delay(gen) in send, lossProbability(gen) and corruptionProbability(gen)
\* in receive
GenUsers ==
    {t \in Callers :
        /\ Depth(t) > 0
        /\ Top(t).pc \in {"s_delay", "r_loss", "r_corrupt"}}

\* C21: when two threads run send and receive on nodes that share one
\* random generator, at most one thread is at a sampling statement at a
\* time.
C21_OneSamplerAtATime == Cardinality(GenUsers) <= 1

\* ------------------------------------------------------------------ C22
\* the tasks of the program: the main thread, which is also the one that
\* calls stop (recorded as "ctl" while it is inside stop), and the
\* processing thread
Holders == Drivers \cup {"proc", "ctl"}

\* the main thread has returned from its sends and from stop
MainFinished ==
    /\ \A t \in Drivers : stack[t] = <<>> /\ (drv[t].sent = MaxSends \/ drv[t].failed)
    /\ ~running[ProcNode]
    /\ ctl.pc = "idle"

\* the main thread can take a step
MainEnabled == ENABLED ((\E t \in Drivers : DriverStep(t)) \/ MainStop \/ StopRest)

\* the processing thread can take a step other than a spurious wake-up
ProcEnabled == ENABLED (ProcProgress \/ ProcError)

\* the processing thread waits on the empty queue of a running node
ProcWaiting == pp.pc = "p_blocked" /\ ~WaitPred(ProcNode)

\* the main thread is about to notify the condition variable of the
\* processing thread's node (notify_one in receive, notify_all in stop)
NotificationDue ==
    \/ \E t \in Drivers : AtPc(t, "receive", "r_notify") /\ Top(t).self = ProcNode
    \/ ctl.pc = "st_notify"

\* C22: no task holds a buffer mutex together with the output mutex, nor
\* the buffer mutexes of two nodes; and whenever the main thread or the
\* processing thread has not finished, one of them can take a step: a
\* processing thread that cannot is waiting on the empty queue of a running
\* node, or for a notification the main thread is about to make, or for a
\* mutex the main thread holds, and the main thread can take a step; a
\* main thread that cannot waits for a mutex of the processing thread,
\* which can.
C22_NoNestingNoDeadlock ==
    /\ \A u \in Holders :
          /\ ~(coutMutex = u /\ \E n \in Nodes : bufferMutex[n] = u)
          /\ Cardinality({n \in Nodes : bufferMutex[n] = u}) <= 1
    /\ (~MainFinished \/ pp.pc # "p_done") => (MainEnabled \/ ProcEnabled)
    /\ (~ProcEnabled /\ pp.pc # "p_done") =>
          \/ ProcWaiting /\ MainEnabled
          \/ pp.pc = "p_blocked" /\ NotificationDue /\ MainEnabled
          \/ pp.pc \in {"p_lock", "p_wake", "p_relock"} /\ ~BufferLockFree(ProcNode) /\ MainEnabled
          \/ pp.pc \in {"p_proc_lock", "p_stop_lock", "p_catch_lock"} /\ ~CoutLockFree /\ MainEnabled
    /\ (~MainEnabled /\ ~MainFinished) => ProcEnabled

\* the processing thread is in its catch block, waiting for the output
\* mutex, which the main thread holds for the "sending" line of the ACK
C22_Witness ==
    /\ pp.pc = "p_catch_lock"
    /\ \E t \in Drivers :
          /\ AtPc(t, "send", "s_emit")
          /\ Top(t).packet.type = ACK
          /\ coutMutex = t

\* ------------------------------------------------------------------ C23
\* the packets processPackets has taken out of node n's queue, in order:
\* those with a "processing" event and the one whose event is being written
Dequeued(n) ==
    IF n = ProcNode
    THEN processed \o (IF pp.pc \in {"p_proc_lock", "p_proc_emit"}
                       THEN <<pp.packet>> ELSE <<>>)
    ELSE <<>>

\* no processing loop is at work on node n: none was started for it, or it
\* has left its loop
LoopOver(n) == n # ProcNode \/ pp.pc \in {"p_stop_lock", "p_stop_emit", "p_done"}

\* C23: queue conservation: for each node the packets enqueued so far are
\* the packets dequeued so far followed by the present content of the
\* queue; and a step leaves the queue of a node without a working
\* processing loop as it was or with more at its end.
C23_QueueConservation ==
    /\ [](\A n \in Nodes : enqueued[n] = Dequeued(n) \o buffer[n])
    /\ [][\A n \in Nodes : LoopOver(n) => IsPrefix(buffer[n], buffer'[n])]_vars

\* one packet is out of the queue for its "processing" event while the
\* next one waits in the queue, and node A's queue holds an ACK
C23_Witness ==
    /\ pp.pc = "p_proc_emit"
    /\ buffer[ProcNode] # <<>>
    /\ buffer["A"] # <<>>
    /\ Len(enqueued[ProcNode]) = Len(processed) + 1 + Len(buffer[ProcNode])

====
